---- MODULE Spec2Model ----
(***************************************************************************)
(* react-look: resolution of "look" style descriptors on a React element   *)
(* tree (resolveLook, resolveStyle), the LookComponent wrapper that runs   *)
(* it on every render, and the browser-state pseudo classes (:active,      *)
(* :hover, :focus) with the listeners they install.                        *)
(*                                                                         *)
(* JavaScript values are encoded as follows.                               *)
(*  - A plain object used as a style table or a style rule is a sequence   *)
(*    of entries [prop, isObj, val, sub] in insertion order: a primitive   *)
(*    value has isObj = FALSE and its value in val, an object value has    *)
(*    isObj = TRUE and its entries in sub.                                 *)
(*  - A resolved style map is a function from property names to style      *)
(*    values [str, el]: a primitive in str, or a React element in el.      *)
(*  - A child / element is a record [k, type, key, ref, props, text] with  *)
(*    k in "elem", "text", "undefined", "null", "false".                   *)
(*  - An optional property is a sequence of length 0 (absent) or 1.        *)
(*  - props.children is [arr, items]: an array (arr = TRUE), a single      *)
(*    child (arr = FALSE, one item) or undefined (arr = FALSE, no item).   *)
(*  - A string with spaces ("a b") is the sequence of its words.           *)
(*  - A thrown exception is the flag threw of the resolution context; once *)
(*    set, every later step of the call is skipped.                        *)
(***************************************************************************)
EXTENDS Integers, Sequences, FiniteSets, TLC

VARIABLES
    hasWindow,            \* typeof window !== 'undefined'
    truths,               \* per owner: the condition strings its props/state satisfy
    additionalStyles,     \* per owner: the style object given to Look(Component, styles)
    mounted,              \* per owner: not yet unmounted
    state,                \* State store: <<owner, key, name>> -> boolean
    lastActiveElements,   \* per owner: Component._lastActiveElements (optional)
    onMouseUp,            \* per owner: Component._onMouseUp is set
    windowListeners,      \* per owner: number of its handlers registered for 'mouseup' on window
    listeners,            \* per owner: the <<key, event>> pairs createListener has made a handler for
    given,                \* per owner: the element its last render() was given, as it was before
    element,              \* per owner: the same element after the call
    out,                  \* per owner: what the last render() produced
    last                  \* the last operation: [op, o, k]

vars == <<hasWindow, truths, additionalStyles, mounted, state, lastActiveElements,
          onMouseUp, windowListeners, listeners, given, element, out, last>>

defaultKey == "root"

-----------------------------------------------------------------------------
(* Values *)

Tag(name) == [fn |-> FALSE, id |-> name, name |-> ""]
Comp(id, name) == [fn |-> TRUE, id |-> id, name |-> name]
NoType == [fn |-> FALSE, id |-> "", name |-> ""]

NoChildren == [arr |-> FALSE, items |-> <<>>]
Single(c) == [arr |-> FALSE, items |-> <<c>>]
Array(s) == [arr |-> TRUE, items |-> s]

EmptyProps ==
    [look |-> <<>>, style |-> <<>>, children |-> NoChildren, className |-> <<>>,
     on |-> {}, src |-> ""]

Elem(type, key, props) ==
    [k |-> "elem", type |-> type, key |-> key, ref |-> "", props |-> props, text |-> ""]
Other(kind, text) ==
    [k |-> kind, type |-> NoType, key |-> "", ref |-> "", props |-> EmptyProps, text |-> text]
Text(s) == Other("text", s)
Undefined == Other("undefined", "")
Null == Other("null", "")
False == Other("false", "")

Str(v) == [str |-> v, el |-> <<>>]
El(e) == [str |-> "", el |-> <<e>>]
EmptyMap == [p \in {} |-> Str("")]

Prim(p, v) == [prop |-> p, isObj |-> FALSE, val |-> v, sub |-> <<>>]
Obj(p, entries) == [prop |-> p, isObj |-> TRUE, val |-> "", sub |-> entries]

Look(names) == [isTrue |-> FALSE, names |-> names]
LookTrue == [isTrue |-> TRUE, names |-> <<>>]

(* JavaScript truthiness of a child and of a style value *)
Truthy(child) == child.k = "elem" \/ (child.k = "text" /\ child.text # "")
TruthyVal(v) == v.el # <<>> \/ v.str # ""

(* obj.hasOwnProperty(p), obj[p], delete obj[p] on an entry sequence *)
Has(obj, p) == \E i \in 1..Len(obj) : obj[i].prop = p
Get(obj, p) == obj[CHOOSE i \in 1..Len(obj) : obj[i].prop = p]
Del(obj, p) == SelectSeq(obj, LAMBDA e : e.prop # p)

(* map[p] = v, delete map[p] on a style map *)
Put(map, p, v) == [q \in DOMAIN map \cup {p} |-> IF q = p THEN v ELSE map[q]]
Without(map, p) == [q \in DOMAIN map \ {p} |-> map[q]]

(* assign(target, source) of assign-styles on flat maps: source wins *)
assign(target, source) ==
    [p \in DOMAIN target \cup DOMAIN source |->
        IF p \in DOMAIN source THEN source[p] ELSE target[p]]

-----------------------------------------------------------------------------
(* State store and listener registry (api/State, api/Listener) *)

(* State.getState(name, Component, key): false when nothing is stored *)
getState(name, Component, key) ==
    IF <<Component, key, name>> \in DOMAIN state
    THEN state[<<Component, key, name>>] ELSE FALSE

(* State.setState(name, value, Component, key): the store afterwards *)
setState(name, value, Component, key) ==
    [t \in DOMAIN state \cup {<<Component, key, name>>} |->
        IF t = <<Component, key, name>> THEN value ELSE state[t]]

(* createListener(Component, element, key, event, callback): the handler of
   (Component, key, event), the same one on every call *)
createListener(Component, el, key, event) == <<key, event>>

(* newProps[event] = handler, and the registry remembers the handler *)
setListener(newProps, event, handler) ==
    [newProps EXCEPT !.on = {h \in @ : h[2] # event} \cup {handler}]
remember(ctx, handler) == [ctx EXCEPT !.reg = @ \cup {handler}]

-----------------------------------------------------------------------------
(* Browser-state pseudo classes *)

(* element.key || element.ref || defaultKey *)
elementKey(el) ==
    IF el.key # "" THEN el.key ELSE IF el.ref # "" THEN el.ref ELSE defaultKey

(* styles when the stored state is true, false (no value) otherwise *)
stateResult(name, styles, Component, key) ==
    IF getState(name, Component, key) THEN <<styles>> ELSE <<>>

(* the pseudo-class log entry of one handler call *)
logPseudo(ctx, name, key, styles, ret) ==
    [ctx EXCEPT !.pseudo = Append(@, [name |-> name, key |-> key,
                                       styles |-> styles, ret |-> ret])]

(* installMouseUp without the test of Component._onMouseUp: a handler is added
   at every evaluation of :active *)
installMouseUpAlways(ctx) ==
    IF hasWindow THEN [ctx EXCEPT !.omu = TRUE, !.win = @ + 1] ELSE ctx

(* if (!Component._onMouseUp && typeof window !== 'undefined') { ... } *)
installMouseUp(ctx) ==
    IF ~ctx.omu /\ hasWindow
    THEN [ctx EXCEPT !.omu = TRUE, !.win = @ + 1]
    ELSE ctx

active(property, styles, customKey, el, Component, newProps, ctx) ==
    LET key == elementKey(el)
        c1 == [ctx EXCEPT !.lae = IF @ = <<>> THEN << <<>> >> ELSE @]
        h == createListener(Component, el, key, "onMouseDown")
        c2 == installMouseUp(remember(c1, h))
        ret == stateResult("active", styles, Component, key)
    IN [ret |-> ret,
        newProps |-> setListener(newProps, "onMouseDown", h),
        ctx |-> logPseudo(c2, "active", key, styles, ret)]

(* hover reading the state of another pseudo class *)
hoverReadsFocus(property, styles, customKey, el, Component, newProps, ctx) ==
    LET key == elementKey(el)
        h1 == createListener(Component, el, key, "onMouseEnter")
        h2 == createListener(Component, el, key, "onMouseLeave")
        ret == stateResult("focus", styles, Component, key)
    IN [ret |-> ret,
        newProps |-> setListener(setListener(newProps, "onMouseEnter", h1),
                                 "onMouseLeave", h2),
        ctx |-> logPseudo(remember(remember(ctx, h1), h2), "hover", key, styles, ret)]

hover(property, styles, customKey, el, Component, newProps, ctx) ==
    LET key == elementKey(el)
        h1 == createListener(Component, el, key, "onMouseEnter")
        h2 == createListener(Component, el, key, "onMouseLeave")
        ret == stateResult("hover", styles, Component, key)
    IN [ret |-> ret,
        newProps |-> setListener(setListener(newProps, "onMouseEnter", h1),
                                 "onMouseLeave", h2),
        ctx |-> logPseudo(remember(remember(ctx, h1), h2), "hover", key, styles, ret)]

focus(property, styles, customKey, el, Component, newProps, ctx) ==
    LET key == elementKey(el)
        h1 == createListener(Component, el, key, "onFocus")
        h2 == createListener(Component, el, key, "onBlur")
        ret == stateResult("focus", styles, Component, key)
    IN [ret |-> ret,
        newProps |-> setListener(setListener(newProps, "onFocus", h1), "onBlur", h2),
        ctx |-> logPseudo(remember(remember(ctx, h1), h2), "focus", key, styles, ret)]

(* The onMouseDown callback: setState('active', true), push(key) *)
onMouseDownCallback(Component, key) ==
    /\ state' = setState("active", TRUE, Component, key)
    /\ lastActiveElements' =
          [lastActiveElements EXCEPT ![Component] = << Append(@[1], key) >>]

(* Array.prototype.pop ignores its argument and removes the last element *)
pop(list, arg) == SubSeq(list, 1, Len(list) - 1)

(* Component._onMouseUp: the store and the list after the while loop *)
RECURSIVE mouseUpLoop(_, _, _)
stored(store, t, value) ==
    [u \in DOMAIN store \cup {t} |-> IF u = t THEN value ELSE store[u]]
mouseUpLoop(Component, store, list) ==
    IF Len(list) > 0
    THEN mouseUpLoop(Component, stored(store, <<Component, list[1], "active">>, FALSE),
                     pop(list, list[1]))
    ELSE [store |-> store, list |-> list]

-----------------------------------------------------------------------------
(* Expression evaluator and validator (utils/evaluator, utils/validator) *)

PseudoBefore == {":before", "::before"}
PseudoAfter == {":after", "::after"}

(* Validator.isPseudoElement(property) *)
isPseudoElement(property) == property \in PseudoBefore \cup PseudoAfter

(* property.indexOf('before') > -1 *)
containsBefore(property) == property \in PseudoBefore

(* what the resolver takes from a handler's value: whether it is truthy *)
evaluated(r) == [val |-> r.ret # <<>>, newProps |-> r.newProps, ctx |-> r.ctx]

(* evaluateExpression(Component, element, property, newProps, childIndexMap):
   a browser-state pseudo class goes to its handler; any other condition holds
   when the owner's props and state (and the child index map) satisfy it *)
evaluateExpression(Component, el, property, value, newProps, childIndexMap, ctx) ==
    evaluated(
        CASE property = ":active" ->
                 active(property, value, "", el, Component, newProps, ctx)
          [] property = ":hover" ->
                 hover(property, value, "", el, Component, newProps, ctx)
          [] property = ":focus" ->
                 focus(property, value, "", el, Component, newProps, ctx)
          [] OTHER ->
                 [ret |-> IF property \in truths[Component] THEN <<value>> ELSE <<>>,
                  newProps |-> newProps, ctx |-> ctx])

-----------------------------------------------------------------------------
(* Resolver (the three-argument resolveLook and its helpers) *)

(* The resolution context: what one render() call reads and changes outside
   the element it resolves, and what it tells the observer.
     styles  Component.styles                 lae   Component._lastActiveElements
     omu     Component._onMouseUp is set      win   handlers it added on window
     reg     handlers createListener made     warn  console.warn calls
     threw   an exception is propagating
     calls   the child index map of every recursion from a child array
     nodes   the style maps of every element resolved
     pseudo  the browser-state handler calls *)
newContext(Component, styles) ==
    [styles |-> styles, lae |-> lastActiveElements[Component],
     omu |-> onMouseUp[Component], win |-> windowListeners[Component],
     reg |-> listeners[Component], warn |-> 0, threw |-> FALSE,
     calls |-> <<>>, nodes |-> <<>>, pseudo |-> <<>>]

throw(ctx) == [ctx EXCEPT !.threw = TRUE]

(* child.type of undefined or null is a TypeError *)
typeThrows(child) == child.k \in {"undefined", "null"}

(* getChildType(child): the key under which the child's type is counted *)
getChildType(child) ==
    IF child.k # "elem" THEN "undefined"
    ELSE IF child.type.fn THEN child.type.name ELSE child.type.id

(* generateIndexMap without the increment *)
generateIndexMapOnce(child, indexMap) ==
    [t \in DOMAIN indexMap \cup {getChildType(child)} |->
        IF t = getChildType(child) THEN 1 ELSE indexMap[t]]

(* generateIndexMap(child, indexMap) *)
generateIndexMap(child, indexMap) ==
    LET childType == getChildType(child)
    IN IF childType \in DOMAIN indexMap
       THEN [indexMap EXCEPT ![childType] = @ + 1]
       ELSE [t \in DOMAIN indexMap \cup {childType} |->
                IF t = childType THEN 1 ELSE indexMap[t]]

EmptyIndexMap == [t \in {} |-> 0]

(* generateTypeMap(children): [threw, map] *)
RECURSIVE typeMapFrom(_, _, _)
typeMapFrom(children, i, indexMap) ==
    IF i > Len(children) THEN [threw |-> FALSE, map |-> indexMap]
    ELSE IF typeThrows(children[i]) THEN [threw |-> TRUE, map |-> indexMap]
    ELSE typeMapFrom(children, i + 1, generateIndexMap(children[i], indexMap))

generateTypeMap(children) == typeMapFrom(children, 1, EmptyIndexMap)

(* the childIndex object of the child at position i (1-based, as index + 1) *)
childIndexOf(oldChildren, i, childType, indexMap, typeMap) ==
    [index |-> i, length |-> Len(oldChildren),
     typeIndex |-> indexMap[childType], typeIndexLength |-> typeMap[childType]]

(* resolveClassName(css, newProps) *)
resolveClassName(css, newProps) ==
    IF newProps.className = <<>>
    THEN [newProps EXCEPT !.className = <<css>>]
    ELSE [newProps EXCEPT !.className = Append(@, css)]

(* if (styles.hasOwnProperty('css')) { ...; delete styles.css } : the rule afterwards *)
deleteCss(styles) == Del(styles, "css")

UrlContents == {"url(x.png)"}
(* content.split('url(')[1].substr(0, content.length - 5) *)
urlSource(content) == IF content = "url(x.png)" THEN "x.png" ELSE ""

(* createPseudoImage(content) *)
createPseudoImage(content) ==
    Elem(Tag("img"), "", [EmptyProps EXCEPT !.src = urlSource(content)])

(* addPseudoElement(styles) *)
addPseudoElement(styles) ==
    LET hasContent == "content" \in DOMAIN styles /\ TruthyVal(styles["content"])
        content == IF hasContent THEN styles["content"].str ELSE ""
        rest == IF hasContent THEN Without(styles, "content") ELSE styles
        children == IF content \in UrlContents
                    THEN Array(<<createPseudoImage(content)>>)
                    ELSE Single(Text(content))
    IN Elem(Tag("span"), "",
            [EmptyProps EXCEPT !.style = <<rest>>, !.children = children])

(* resolveStyle(Component, element, styles, newProps, newChildren, childIndexMap):
   [style, styles (the rule afterwards), newProps, ctx] *)
RECURSIVE resolveStyle(_, _, _, _, _, _)
RECURSIVE eachProperty(_, _, _, _, _, _, _, _)
RECURSIVE nextProperty(_, _, _, _, _)
RECURSIVE property(_, _, _, _, _, _, _, _)
RECURSIVE condition(_, _, _, _, _, _, _)

(* if (styles.hasOwnProperty('css')) { resolveClassName(styles.css, newProps) } *)
cssClassName(styles, newProps) ==
    IF Has(styles, "css") THEN resolveClassName(Get(styles, "css").val, newProps)
    ELSE newProps

resolveStyle(Component, el, styles, newProps, childIndexMap, ctx) ==
    eachProperty(Component, el, deleteCss(styles), 1, EmptyMap,
                 cssClassName(styles, newProps), childIndexMap, ctx)

(* _Object.each(styles, (property, value) => ...), from entry i on *)
eachProperty(Component, el, styles, i, newStyle, newProps, childIndexMap, ctx) ==
    IF i > Len(styles)
    THEN [style |-> newStyle, styles |-> styles, newProps |-> newProps, ctx |-> ctx]
    ELSE nextProperty(Component, el, i, childIndexMap,
                      property(Component, el, styles, i, newStyle, newProps,
                               childIndexMap, ctx))

nextProperty(Component, el, i, childIndexMap, s) ==
    eachProperty(Component, el, s.styles, i + 1, s.style, s.newProps, childIndexMap, s.ctx)

(* newStyle[before or after] = addPseudoElement(resolved), or
   newStyle = assign(newStyle, resolved) *)
addResolved(newStyle, prop, resolved) ==
    IF isPseudoElement(prop)
    THEN Put(newStyle, IF containsBefore(prop) THEN "before" ELSE "after",
             El(addPseudoElement(resolved)))
    ELSE assign(newStyle, resolved)

(* the body of the callback once the nested rule is resolved *)
nested(styles, i, newStyle, r) ==
    [style |-> addResolved(newStyle, styles[i].prop, r.style),
     styles |-> [styles EXCEPT ![i].sub = r.styles],
     newProps |-> r.newProps, ctx |-> r.ctx]

(* if (evaluateExpression(...)) { let resolved = resolveStyle(...) ... } *)
condition(Component, el, styles, i, newStyle, childIndexMap, ev) ==
    IF ev.val
    THEN nested(styles, i, newStyle,
                resolveStyle(Component, el, styles[i].sub, ev.newProps,
                             childIndexMap, ev.ctx))
    ELSE [style |-> newStyle, styles |-> styles, newProps |-> ev.newProps,
          ctx |-> ev.ctx]

(* the callback of _Object.each on entry i *)
property(Component, el, styles, i, newStyle, newProps, childIndexMap, ctx) ==
    IF ~styles[i].isObj
    THEN [style |-> Put(newStyle, styles[i].prop, Str(styles[i].val)),
          styles |-> styles, newProps |-> newProps, ctx |-> ctx]
    ELSE IF styles[i].sub = <<>>
    THEN [style |-> newStyle, styles |-> styles, newProps |-> newProps, ctx |-> ctx]
    ELSE condition(Component, el, styles, i, newStyle, childIndexMap,
                   evaluateExpression(Component, el, styles[i].prop, styles[i].sub,
                                      newProps, childIndexMap, ctx))

(* (props.look === true ? '_default' : props.look).split(' ') *)
looksOf(look) == IF look.isTrue THEN <<"_default">> ELSE look.names

(* the position of a look in Component.styles *)
lookAt(styles, look) == CHOOSE n \in 1..Len(styles) : styles[n].prop = look

(* assign(newStyles, resolveStyle(...)) and what resolveStyle changed *)
looked(newStyles, j, r) ==
    [newStyles |-> assign(newStyles, r.style), newProps |-> r.newProps,
     ctx |-> [r.ctx EXCEPT !.styles[j].sub = r.styles]]

(* the callback of looks.forEach *)
oneLook(Component, el, look, newStyles, newProps, childIndexMap, ctx) ==
    IF Has(ctx.styles, look)
    THEN looked(newStyles, lookAt(ctx.styles, look),
                resolveStyle(Component, el, ctx.styles[lookAt(ctx.styles, look)].sub,
                             newProps, childIndexMap, ctx))
    ELSE [newStyles |-> newStyles, newProps |-> newProps, ctx |-> ctx]

(* looks.forEach(look => ...): [newStyles, newProps, ctx] *)
RECURSIVE eachLook(_, _, _, _, _, _)
RECURSIVE nextLook(_, _, _, _, _, _)
eachLook(Component, el, looks, i, childIndexMap, s) ==
    IF i > Len(looks) THEN s
    ELSE nextLook(Component, el, looks, i, childIndexMap,
                  oneLook(Component, el, looks[i], s.newStyles, s.newProps,
                          childIndexMap, s.ctx))
nextLook(Component, el, looks, i, childIndexMap, s) ==
    eachLook(Component, el, looks, i + 1, childIndexMap, s)

(* _Object.assign({}, props) *)
copyProps(props) == props

(* delete props.look: the props of the element afterwards *)
deleteLook(props) == [props EXCEPT !.look = <<>>]

(* the style prop assigned under the resolved styles instead of over them *)
assignStylePropUnder(newStyles, props) ==
    IF props.style # <<>> THEN assign(props.style[1], newStyles) ELSE newStyles

(* if (props.style) { assign(newStyles, props.style) } *)
assignStyleProp(newStyles, props) ==
    IF props.style # <<>> THEN assign(newStyles, props.style[1]) ELSE newStyles

(* new Sheet(newStyles), sheet.process(...Component.processors) with no
   processors, sheet.getSelectors() *)
getSelectors(newStyles) == newStyles

(* the child a pseudo element entry puts into newChildren *)
pseudoChild(v) == IF v.el # <<>> THEN v.el[1] ELSE Text(v.str)
truthyEntry(styles, p) == p \in DOMAIN styles /\ TruthyVal(styles[p])

(* resolving :before & :after pseudo elements: [styles, newChildren];
   newChildren.items is [newChildren] when newChildren is no array *)
pseudoElements(styles, newChildren) ==
    IF truthyEntry(styles, "before")
    THEN [styles |-> Without(styles, "before"),
          newChildren |-> Array(<<pseudoChild(styles["before"])>> \o newChildren.items)]
    ELSE IF truthyEntry(styles, "after")
    THEN [styles |-> Without(styles, "after"),
          newChildren |-> Array(Append(newChildren.items, pseudoChild(styles["after"])))]
    ELSE [styles |-> styles, newChildren |-> newChildren]

(* React.cloneElement(element, newProps, newChildren): the props of the element
   with those of newProps over them, and the children given *)
cloneElement(el, newProps, newChildren) ==
    [el EXCEPT !.props =
        [look |-> IF newProps.look # <<>> THEN newProps.look ELSE el.props.look,
         style |-> IF newProps.style # <<>> THEN newProps.style ELSE el.props.style,
         className |-> IF newProps.className # <<>> THEN newProps.className
                       ELSE el.props.className,
         on |-> {h \in el.props.on : \A g \in newProps.on : g[2] # h[2]}
                \cup newProps.on,
         src |-> IF newProps.src # "" THEN newProps.src ELSE el.props.src,
         children |-> newChildren]]

(* resolveLook(Component, element, childIndexMap):
   [ctx, ret (the element returned), input (the element given, afterwards)].
   path is the position of the element in the tree, for the observer only. *)
RECURSIVE resolveLook(_, _, _, _, _)
RECURSIVE eachChild(_, _, _, _, _, _)
RECURSIVE nextChild(_, _, _, _, _, _)
RECURSIVE oneChild(_, _, _, _, _, _, _)
RECURSIVE resolveChildren(_, _, _, _)

(* the observer's record of a recursion from a child array *)
called(ctx, path, childIndex) ==
    [ctx EXCEPT !.calls = Append(@, [path |-> path, meta |-> childIndex])]

(* newChildren.push(resolveLook(Component, child, childIndex)) *)
pushResolved(s, indexMap, r) ==
    [ctx |-> r.ctx, indexMap |-> indexMap,
     newChildren |-> Append(s.newChildren, r.ret), input |-> Append(s.input, r.input)]

(* if (child) { generateIndexMap(child, indexMap); childIndex = {...}; ... } *)
validChild(Component, oldChildren, typeMap, i, path, s, indexMap) ==
    pushResolved(s, indexMap,
        resolveLook(Component, oldChildren[i],
            <<childIndexOf(oldChildren, i, getChildType(oldChildren[i]), indexMap, typeMap)>>,
            Append(path, i),
            called(s.ctx, Append(path, i),
                   childIndexOf(oldChildren, i, getChildType(oldChildren[i]),
                                indexMap, typeMap))))

(* the callback of oldChildren.forEach on the child at position i;
   s is [ctx, indexMap, newChildren, input] *)
oneChild(Component, oldChildren, typeMap, i, path, s, child) ==
    IF Truthy(child)
    THEN validChild(Component, oldChildren, typeMap, i, path, s,
                    generateIndexMap(child, s.indexMap))
    ELSE IF child.k = "undefined"
    \* console.warn(..., oldChidren): oldChidren is not defined, a ReferenceError
    THEN [s EXCEPT !.ctx = throw(@), !.input = Append(@, child)]
    ELSE [s EXCEPT !.newChildren = Append(@, child), !.input = Append(@, child)]

(* oldChildren.forEach((child, index) => ...), from position i on *)
eachChild(Component, oldChildren, typeMap, i, path, s) ==
    IF i > Len(oldChildren) \/ s.ctx.threw
    THEN [s EXCEPT !.input = @ \o SubSeq(oldChildren, i, Len(oldChildren))]
    ELSE nextChild(Component, oldChildren, typeMap, i, path,
                   oneChild(Component, oldChildren, typeMap, i, path, s, oldChildren[i]))
nextChild(Component, oldChildren, typeMap, i, path, s) ==
    eachChild(Component, oldChildren, typeMap, i + 1, path, s)

(* the children an array gave *)
fromArray(r) ==
    [ctx |-> r.ctx, newChildren |-> Array(r.newChildren), input |-> Array(r.input)]
(* the child a single child gave *)
fromSingle(r) ==
    [ctx |-> r.ctx, newChildren |-> Single(r.ret), input |-> Single(r.input)]

(* if (oldChildren instanceof Array) { let typeMap = generateTypeMap(oldChildren) ... } *)
resolveArray(Component, oldChildren, path, ctx, tm) ==
    IF tm.threw
    THEN [ctx |-> throw(ctx), newChildren |-> Array(<<>>), input |-> oldChildren]
    ELSE fromArray(eachChild(Component, oldChildren.items, tm.map, 1, path,
                             [ctx |-> ctx, indexMap |-> EmptyIndexMap,
                              newChildren |-> <<>>, input |-> <<>>]))

(* if (oldChildren) { ... }: [ctx, newChildren, input (props.children afterwards)] *)
resolveChildren(Component, oldChildren, path, ctx) ==
    IF oldChildren.arr
    THEN resolveArray(Component, oldChildren, path, ctx,
                      generateTypeMap(oldChildren.items))
    ELSE IF oldChildren.items # <<>> /\ Truthy(oldChildren.items[1])
    THEN fromSingle(resolveLook(Component, oldChildren.items[1], <<>>,
                                Append(path, 1), ctx))
    ELSE [ctx |-> ctx, newChildren |-> Array(<<>>), input |-> oldChildren]

(* the observer's record of an element resolved *)
resolvedNode(path, props, resolved, merged, pe, ret) ==
    [path |-> path, hasLook |-> props.look # <<>>, resolved |-> resolved,
     explicit |-> props.style, merged |-> merged, style |-> pe.styles,
     before |-> truthyEntry(merged, "before"), after |-> truthyEntry(merged, "after"),
     children |-> pe.newChildren, retLook |-> ret.props.look,
     className |-> ret.props.className]

(* what resolveLook returns, and the observer's record of it *)
returned(ctx, path, props, props2, resolved, merged, pe, el, ret) ==
    [ctx |-> [ctx EXCEPT !.nodes =
                 Append(@, resolvedNode(path, props, resolved, merged, pe, ret))],
     ret |-> ret,
     input |-> [el EXCEPT !.props = props2]]

(* newProps.style = styles; return React.cloneElement(element, newProps, newChildren) *)
finish(el, path, props, props2, lk, merged, pe) ==
    returned(lk.ctx, path, props, props2, lk.newStyles, merged, pe, el,
             cloneElement([el EXCEPT !.props = props2],
                          [lk.newProps EXCEPT !.style = <<pe.styles>>],
                          pe.newChildren))

(* from the style prop on; props2 is the element's props after delete props.look *)
styled(el, path, props, props2, newChildren, lk, merged) ==
    finish(el, path, props, props2, lk, merged,
           pseudoElements(getSelectors(merged), newChildren))

(* from the looks on; lk is [newStyles, newProps, ctx] after looks.forEach *)
afterLooks(el, path, props, props2, newChildren, lk) ==
    styled(el, path, props, props2, newChildren, lk,
           assignStyleProp(lk.newStyles, props2))

(* if (props.hasOwnProperty('look')) { looks.forEach(...); delete props.look } *)
resolveLooks(Component, el, childIndexMap, path, props, newChildren, ctx) ==
    IF props.look # <<>>
    THEN afterLooks(el, path, props, deleteLook(props), newChildren,
                    eachLook(Component, el, looksOf(props.look[1]), 1, childIndexMap,
                             [newStyles |-> EmptyMap, newProps |-> copyProps(props),
                              ctx |-> ctx]))
    ELSE afterLooks(el, path, props, props, newChildren,
                    [newStyles |-> EmptyMap, newProps |-> copyProps(props), ctx |-> ctx])

(* from let newProps = ... on; ch is what the children gave *)
afterChildren(Component, el, childIndexMap, path, ch) ==
    IF ch.ctx.threw
    THEN [ctx |-> ch.ctx, ret |-> el,
          input |-> [el EXCEPT !.props.children = ch.input]]
    ELSE resolveLooks(Component, el, childIndexMap, path,
                      [el.props EXCEPT !.children = ch.input], ch.newChildren, ch.ctx)

resolveLook(Component, el, childIndexMap, path, ctx) ==
    IF el.k # "elem" \/ ctx.threw
    THEN [ctx |-> ctx, ret |-> el, input |-> el]
    ELSE afterChildren(Component, el, childIndexMap, path,
                       resolveChildren(Component, el.props.children, path, ctx))

-----------------------------------------------------------------------------
(* LookComponent and the events of the browser *)

Owners == {"o1", "o2"}
OwnerSeq == <<"o1", "o2">>

(* this.styles[Object.keys(this.styles)[0]] instanceof Object !== true *)
needsDefault(styles) == styles = <<>> \/ ~styles[1].isObj

(* this.styles of render(): additionalStyles itself, or { '_default': it } *)
renderStyles(styles) ==
    IF needsDefault(styles) THEN <<Obj("_default", styles)>> ELSE styles

(* the additionalStyles object after the pass, this.styles being it or its wrapper *)
stylesAfter(before, thisStyles) ==
    IF needsDefault(before) THEN thisStyles[1].sub ELSE thisStyles

(* the handlers that are props of the elements of a tree *)
RECURSIVE handlersOf(_)
RECURSIVE handlersOfAll(_, _)
handlersOfAll(items, i) ==
    IF i > Len(items) THEN {} ELSE handlersOf(items[i]) \cup handlersOfAll(items, i + 1)
handlersOf(node) ==
    IF node.k # "elem" THEN {}
    ELSE node.props.on \cup handlersOfAll(node.props.children.items, 1)

NoOut ==
    [rendered |-> FALSE, threw |-> FALSE, ret |-> Undefined, warn |-> 0,
     calls |-> <<>>, nodes |-> <<>>, pseudo |-> <<>>]

(* constructor: nothing stored, no list, no handler *)
InitWith(windows, tables, conditions, inputs, live) ==
    /\ hasWindow \in windows
    /\ additionalStyles \in tables
    /\ truths \in conditions
    /\ mounted = [o \in Owners |-> o \in live]
    /\ state = [t \in {} |-> FALSE]
    /\ lastActiveElements = [o \in Owners |-> <<>>]
    /\ onMouseUp = [o \in Owners |-> FALSE]
    /\ windowListeners = [o \in Owners |-> 0]
    /\ listeners = [o \in Owners |-> {}]
    /\ given \in inputs
    /\ element = given
    /\ out = [o \in Owners |-> NoOut]
    /\ last = [op |-> "init", o |-> "", k |-> ""]

(* render(): resolveLook(this, super.render()), super.render() returning e *)
Rendered(o, e, r) ==
    /\ additionalStyles' =
          [additionalStyles EXCEPT ![o] = stylesAfter(@, r.ctx.styles)]
    /\ lastActiveElements' = [lastActiveElements EXCEPT ![o] = r.ctx.lae]
    /\ onMouseUp' = [onMouseUp EXCEPT ![o] = r.ctx.omu]
    /\ windowListeners' = [windowListeners EXCEPT ![o] = r.ctx.win]
    /\ listeners' = [listeners EXCEPT ![o] = r.ctx.reg]
    /\ given' = [given EXCEPT ![o] = e]
    /\ element' = [element EXCEPT ![o] = r.input]
    /\ out' = [out EXCEPT ![o] =
          [rendered |-> TRUE, threw |-> r.ctx.threw,
           ret |-> IF r.ctx.threw THEN Undefined ELSE r.ret,
           warn |-> r.ctx.warn, calls |-> r.ctx.calls,
           nodes |-> r.ctx.nodes, pseudo |-> r.ctx.pseudo]]

Render(o, e) ==
    /\ mounted[o]
    /\ Rendered(o, e, resolveLook(o, e, <<>>, <<>>,
                                  newContext(o, renderStyles(additionalStyles[o]))))
    /\ last' = [op |-> "render", o |-> o, k |-> ""]
    /\ UNCHANGED <<hasWindow, truths, mounted, state>>

(* an event reaches the handler that is a prop of a rendered element *)
canFire(o, k, event) ==
    /\ hasWindow
    /\ mounted[o]
    /\ <<k, event>> \in handlersOf(out[o].ret)

MaxActive == 3

MouseDown(o, k) ==
    /\ canFire(o, k, "onMouseDown")
    /\ Len(lastActiveElements[o][1]) < MaxActive
    /\ onMouseDownCallback(o, k)
    /\ last' = [op |-> "mousedown", o |-> o, k |-> k]
    /\ UNCHANGED <<hasWindow, truths, additionalStyles, mounted, onMouseUp,
                   windowListeners, listeners, given, element, out>>

(* a 'mouseup' on window runs every handler registered there *)
RECURSIVE dispatchMouseUp(_, _)
ran(o, s, r) == [store |-> r.store, lists |-> [s.lists EXCEPT ![o] = <<r.list>>]]
runMouseUp(o, s) ==
    IF windowListeners[o] > 0 THEN ran(o, s, mouseUpLoop(o, s.store, s.lists[o][1]))
    ELSE s
dispatchMouseUp(i, s) ==
    IF i > Len(OwnerSeq) THEN s
    ELSE dispatchMouseUp(i + 1, runMouseUp(OwnerSeq[i], s))

MouseUpDone(r) ==
    /\ state' = r.store
    /\ lastActiveElements' = r.lists

MouseUp ==
    /\ hasWindow
    /\ \E o \in Owners : windowListeners[o] > 0
    /\ MouseUpDone(dispatchMouseUp(1, [store |-> state, lists |-> lastActiveElements]))
    /\ last' = [op |-> "mouseup", o |-> "", k |-> ""]
    /\ UNCHANGED <<hasWindow, truths, additionalStyles, mounted, onMouseUp,
                   windowListeners, listeners, given, element, out>>

(* the callbacks of hover and focus change the store alone *)
StoreOnly ==
    UNCHANGED <<hasWindow, truths, additionalStyles, mounted, lastActiveElements,
                onMouseUp, windowListeners, listeners, given, element, out>>

MouseEnter(o, k) ==
    /\ canFire(o, k, "onMouseEnter")
    /\ state' = setState("hover", TRUE, o, k)
    /\ last' = [op |-> "mouseenter", o |-> o, k |-> k]
    /\ StoreOnly

MouseLeave(o, k) ==
    /\ canFire(o, k, "onMouseLeave")
    /\ state' = setState("hover", FALSE, o, k)
    /\ last' = [op |-> "mouseleave", o |-> o, k |-> k]
    /\ StoreOnly

Focus(o, k) ==
    /\ canFire(o, k, "onFocus")
    /\ state' = setState("focus", TRUE, o, k)
    /\ last' = [op |-> "focus", o |-> o, k |-> k]
    /\ StoreOnly

Blur(o, k) ==
    /\ canFire(o, k, "onBlur")
    /\ state' = setState("focus", FALSE, o, k)
    /\ last' = [op |-> "blur", o |-> o, k |-> k]
    /\ StoreOnly

(* window.removeEventListener('mouseup', this._onMouseUp) *)
removeEventListener(n) == IF n > 0 THEN n - 1 ELSE n

(* componentWillUnmount() *)
componentWillUnmount(o) ==
    /\ mounted[o]
    /\ mounted' = [mounted EXCEPT ![o] = FALSE]
    /\ windowListeners' =
          [windowListeners EXCEPT ![o] =
              IF onMouseUp[o] THEN removeEventListener(@) ELSE @]
    /\ last' = [op |-> "unmount", o |-> o, k |-> ""]
    /\ UNCHANGED <<hasWindow, truths, additionalStyles, state, lastActiveElements,
                   onMouseUp, listeners, given, element, out>>

-----------------------------------------------------------------------------
(* Style resolution of one element: the looks, the style prop, the pseudo
   elements.  Owner o1 renders an element of StyleTrees against one of
   StyleTables, any number of times. *)

RuleA == <<Prim("color", "red"), Prim("css", "btn")>>
RuleB == <<Prim("color", "green"), Prim("size", "big")>>
RuleNested ==
    <<Prim("color", "red"),
      Obj("cond", <<Prim("color", "green"),
                    Obj("cond2", <<Prim("color", "pink"), Prim("size", "big")>>)>>),
      Obj("empty", <<>>)>>
RuleBefore == <<Obj(":before", <<Prim("content", "x"), Prim("color", "red")>>)>>
RuleBoth ==
    <<Prim("color", "red"),
      Obj("::before", <<Prim("content", "url(x.png)")>>),
      Obj(":after", <<Prim("content", "y"), Prim("size", "big")>>)>>
RuleAfter ==
    <<Obj("cond", <<Obj("::after", <<Prim("color", "red")>>)>>)>>

StyleTables ==
    { <<Obj("a", RuleA), Obj("b", RuleB)>>,
      <<Obj("a", RuleNested), Obj("b", RuleBefore)>>,
      <<Obj("a", RuleBoth), Obj("b", RuleAfter)>>,
      RuleA }

StyleConditions ==
    { {}, {"cond"}, {"cond", "cond2"}, {":before", "::before"}, {":after", "::after"},
      {":before", "::before", ":after", "::after", "cond"} }

StyleLooks ==
    { <<>>, <<Look(<<"a">>)>>, <<Look(<<"a", "b">>)>>, <<LookTrue>>,
      <<Look(<<"zz">>)>> }

StyleProps ==
    { <<>>, <<[p \in {"color", "width"} |-> Str("blue")]>> }

SpanB == Elem(Tag("span"), "", [EmptyProps EXCEPT !.look = <<Look(<<"b">>)>>])
Plain == Elem(Tag("span"), "", EmptyProps)

StyleChildren ==
    { NoChildren, Single(SpanB), Array(<<Plain, Text("t")>>) }

StyleTrees ==
    { Elem(Tag("div"), "", [EmptyProps EXCEPT !.look = l, !.style = s, !.children = c]) :
        l \in StyleLooks, s \in StyleProps, c \in StyleChildren }

OnlyFirst(values) ==
    { [o \in Owners |-> IF o = "o1" THEN v ELSE <<>>] : v \in values }
OnlyFirstSet(values) ==
    { [o \in Owners |-> IF o = "o1" THEN v ELSE {}] : v \in values }

NoInput == {[o \in Owners |-> Undefined]}

InitStyle ==
    InitWith({TRUE}, OnlyFirst(StyleTables), OnlyFirstSet(StyleConditions), NoInput,
             {"o1"})

RenderStyle == \E e \in StyleTrees : Render("o1", e)

NextStyle == RenderStyle

SpecStyle == InitStyle /\ [][NextStyle]_vars

(* C3: for every element that declares a look, the element resolveLook
   returns for it has no look prop. *)
C3_LookStripped ==
    \A o \in Owners : \A i \in 1..Len(out[o].nodes) :
        out[o].nodes[i].hasLook => out[o].nodes[i].retLook = <<>>

(* C4: after resolveLook has returned, the element it was given is as it was
   before the call, its props and those of its descendants included. *)
C4_InputUnchanged ==
    \A o \in Owners :
        (out[o].rendered /\ ~out[o].threw) => element[o] = given[o]

(* C5: where both the style prop and the looks of an element set a property,
   the merged style map holds the value of the style prop, and so does the
   style the returned element gets. *)
C5_ExplicitStyleWins ==
    \A o \in Owners : \A i \in 1..Len(out[o].nodes) :
        LET n == out[o].nodes[i] IN
        n.explicit # <<>> =>
            \A p \in DOMAIN n.explicit[1] \cap DOMAIN n.resolved :
                /\ p \in DOMAIN n.merged /\ n.merged[p] = n.explicit[1][p]
                /\ p \in DOMAIN n.style /\ n.style[p] = n.explicit[1][p]

(* C5 happens: a condition nested two deep resolved color to pink, the style
   prop says blue, and blue it is. *)
C5_Witness ==
    \E i \in 1..Len(out["o1"].nodes) :
        LET n == out["o1"].nodes[i] IN
        /\ n.explicit # <<>>
        /\ "color" \in DOMAIN n.resolved /\ n.resolved["color"] = Str("pink")
        /\ n.explicit[1]["color"] = Str("blue")
        /\ n.style["color"] = Str("blue")

(* C8: a before entry puts the synthesized element first among the children
   returned, an after entry puts it last, whichever of the two are there, and
   the style of the returned element keeps neither entry. *)
C8_PseudoElementPlacement ==
    \A o \in Owners : \A i \in 1..Len(out[o].nodes) :
        LET n == out[o].nodes[i]
            items == n.children.items
        IN /\ n.before => /\ n.children.arr /\ Len(items) >= 1
                          /\ items[1] = pseudoChild(n.merged["before"])
           /\ n.after => /\ n.children.arr /\ Len(items) >= 1
                         /\ items[Len(items)] = pseudoChild(n.merged["after"])
           /\ "before" \notin DOMAIN n.style
           /\ "after" \notin DOMAIN n.style

-----------------------------------------------------------------------------
(* Children of one element: the type map, the index map, the children that
   are no elements.  Owner o1 is given an element whose children are a
   sequence over ChildUniverse and renders it once. *)

MaxChildren == 3

LookA == <<Look(<<"a">>)>>
Div == Elem(Tag("div"), "", EmptyProps)
DivA == Elem(Tag("div"), "", [EmptyProps EXCEPT !.look = LookA])
Span == Elem(Tag("span"), "", EmptyProps)
ItemA == Elem(Comp("ItemA", "Item"), "", [EmptyProps EXCEPT !.look = LookA])
ItemB == Elem(Comp("ItemB", "Item"), "", EmptyProps)
List == Elem(Tag("ul"), "", [EmptyProps EXCEPT !.children = Array(<<Span, Div, Span>>)])

ElementChildren == {Div, DivA, Span, ItemA, ItemB, List}
ChildUniverse == ElementChildren \cup {Text("t"), Undefined, Null, False}

ChildSequences == UNION { [1..n -> ChildUniverse] : n \in 0..MaxChildren }

ChildTrees ==
    { Elem(Tag("div"), "", [EmptyProps EXCEPT !.look = l, !.children = Array(c)]) :
        l \in {<<>>, LookA}, c \in ChildSequences }

InitChildren ==
    InitWith({TRUE}, OnlyFirst({<<Obj("a", RuleA)>>}), OnlyFirstSet({{}}),
             { [o \in Owners |-> IF o = "o1" THEN e ELSE Undefined] : e \in ChildTrees },
             {"o1"})

RenderGiven == ~out["o1"].rendered /\ Render("o1", given["o1"])

NextChildren == RenderGiven

SpecChildren == InitChildren /\ [][NextChildren]_vars

(* the element at a path of child positions *)
RECURSIVE nodeAt(_, _)
nodeAt(node, path) ==
    IF path = <<>> THEN node
    ELSE nodeAt(node.props.children.items[Head(path)], Tail(path))

(* the siblings of the child a call was made for, and its position *)
siblingsOf(o, call) ==
    nodeAt(given[o], SubSeq(call.path, 1, Len(call.path) - 1)).props.children.items
positionOf(call) == call.path[Len(call.path)]

allElements(children) == \A j \in 1..Len(children) : children[j].k = "elem"

(* the children at positions 1..upTo that are of the kind of the child at i,
   the kind being the type itself: the tag, or the component *)
sameType(children, i, upTo) ==
    {j \in 1..upTo : children[j].type = children[i].type}

(* ... the kind being the key getChildType gives: the tag, or the name of the
   component function *)
sameTypeKey(children, i, upTo) ==
    {j \in 1..upTo : getChildType(children[j]) = getChildType(children[i])}

(* C2: an undefined entry among the children does not make the resolution
   raise; it is warned about, and the children returned are the other children
   in their order. *)
C2_UndefinedChildDropped ==
    \A o \in Owners :
        LET old == given[o].props.children.items
            kept == SelectSeq(old, LAMBDA c : c.k # "undefined")
            new == out[o].ret.props.children.items
        IN (/\ out[o].rendered
            /\ \E j \in 1..Len(old) : old[j].k = "undefined"
            /\ \A j \in 1..Len(old) : old[j].k \in {"undefined", "elem", "text"})
           => /\ ~out[o].threw
              /\ out[o].warn >= 1
              /\ Len(new) = Len(kept)
              /\ \A j \in 1..Len(kept) :
                    new[j].k = kept[j].k /\ new[j].type = kept[j].type

(* C7 as stated: for a sequence of element children, the child at position i
   is given typeIndex = the number of children of its kind up to and including
   it, and typeIndexLength = the number of children of its kind, the kind being
   the tag or the component. *)
C7_PositionalMetadata ==
    \A o \in Owners : \A c \in 1..Len(out[o].calls) :
        LET call == out[o].calls[c]
            sibs == siblingsOf(o, call)
            i == positionOf(call)
        IN allElements(sibs) =>
            /\ call.meta.typeIndex = Cardinality(sameType(sibs, i, i))
            /\ call.meta.typeIndexLength = Cardinality(sameType(sibs, i, Len(sibs)))

(* C7 amended: the same, the kind being the key getChildType gives, so that
   two components whose functions have the same name are of one kind. *)
C7_PositionalMetadataByKey ==
    \A o \in Owners : \A c \in 1..Len(out[o].calls) :
        LET call == out[o].calls[c]
            sibs == siblingsOf(o, call)
            i == positionOf(call)
        IN allElements(sibs) =>
            /\ call.meta.typeIndex = Cardinality(sameTypeKey(sibs, i, i))
            /\ call.meta.typeIndexLength = Cardinality(sameTypeKey(sibs, i, Len(sibs)))

(* C7 happens: of three element children the third is the second of its kind,
   another kind standing between. *)
C7_Witness ==
    \E c \in 1..Len(out["o1"].calls) :
        LET call == out["o1"].calls[c]
            sibs == siblingsOf("o1", call)
        IN /\ allElements(sibs) /\ Len(sibs) = 3 /\ positionOf(call) = 3
           /\ getChildType(sibs[1]) = getChildType(sibs[3])
           /\ getChildType(sibs[2]) # getChildType(sibs[3])
           /\ call.meta.typeIndex = 2 /\ call.meta.typeIndexLength = 2

-----------------------------------------------------------------------------
(* The :active pseudo class and the mouseup handler on window.  Two owners,
   each rendering its own tree against its own copy of the same style table;
   the elements of o1 have the keys a and b, the element of o2 the key a. *)

Keys == {"a", "b", defaultKey}

ActiveRule == <<Prim("color", "red"), Obj(":active", <<Prim("color", "blue")>>)>>
ActiveTable == <<Obj("btn", ActiveRule)>>

LookBtn == <<Look(<<"btn">>)>>
Button(key) == Elem(Tag("button"), key, [EmptyProps EXCEPT !.look = LookBtn])
Pair == Elem(Tag("div"), "", [EmptyProps EXCEPT !.children = Array(<<Button("a"), Button("b")>>)])

ActiveTree == [o \in Owners |-> IF o = "o1" THEN Pair ELSE Button("a")]

InitActive ==
    InitWith(BOOLEAN, {[o \in Owners |-> ActiveTable]}, {[o \in Owners |-> {}]},
             NoInput, Owners)

RenderActive == \E o \in Owners : Render(o, ActiveTree[o])
PointerDown == \E o \in Owners : \E k \in Keys : MouseDown(o, k)
Unmount == \E o \in Owners : componentWillUnmount(o)

NextActive == RenderActive \/ PointerDown \/ MouseUp \/ Unmount

SpecActive == InitActive /\ [][NextActive]_vars

(* what the store holds for (owner, key, name), read without getState *)
storedTrue(o, k, name) ==
    <<o, k, name>> \in DOMAIN state /\ state[<<o, k, name>>]

(* C1: once the mouseup handler of an owner has run, none of the keys that the
   onMouseDown callbacks made active is active any more. *)
C1_ActiveReleaseSweep ==
    last.op = "mouseup" =>
        \A o \in Owners : windowListeners[o] > 0 =>
            \A k \in Keys : ~storedTrue(o, k, "active")

(* C10: a mounted owner has at most one mouseup handler on window, an unmounted
   owner has none, and unmounting one owner leaves the handlers of the others
   as they are. *)
C10_ReleaseHandlerLifecycle ==
    /\ [](\A o \in Owners :
            /\ mounted[o] => windowListeners[o] <= 1
            /\ ~mounted[o] => windowListeners[o] = 0)
    /\ [][\A o \in Owners :
            (mounted[o] /\ ~mounted'[o]) =>
                \A p \in Owners \ {o} : windowListeners'[p] = windowListeners[p]]_vars

(* C10 happens: o1 evaluated :active on two elements in one pass, had its
   handler on window and was unmounted; the handler of o2 is still there. *)
C10_Witness ==
    /\ ~mounted["o1"] /\ onMouseUp["o1"] /\ windowListeners["o1"] = 0
    /\ Len(out["o1"].pseudo) = 2
    /\ mounted["o2"] /\ windowListeners["o2"] = 1

-----------------------------------------------------------------------------
(* The :hover and :focus pseudo classes, and passes that repeat.  The rule btn
   has a className, :hover and :focus; the rule link has :hover alone. *)

HoverRule ==
    <<Prim("css", "btn"), Prim("color", "red"),
      Obj(":hover", <<Prim("color", "green")>>),
      Obj(":focus", <<Prim("css", "focused"), Prim("size", "big")>>)>>
LinkRule == <<Prim("color", "red"), Obj(":hover", <<Prim("color", "green")>>)>>
HoverTable == <<Obj("btn", HoverRule), Obj("link", LinkRule)>>

Link(key) == Elem(Tag("a"), key, [EmptyProps EXCEPT !.look = <<Look(<<"link">>)>>])
Form == Elem(Tag("div"), "", [EmptyProps EXCEPT !.children = Array(<<Button("a"), Link("b")>>)])

HoverTree == [o \in Owners |-> IF o = "o1" THEN Form ELSE Link("")]

InitHover ==
    InitWith(BOOLEAN, {[o \in Owners |-> HoverTable]}, {[o \in Owners |-> {}]},
             NoInput, Owners)

RenderHover == \E o \in Owners : Render(o, HoverTree[o])
PointerEnter == \E o \in Owners : \E k \in Keys : MouseEnter(o, k)
PointerLeave == \E o \in Owners : \E k \in Keys : MouseLeave(o, k)
FocusIn == \E o \in Owners : \E k \in Keys : Focus(o, k)
FocusOut == \E o \in Owners : \E k \in Keys : Blur(o, k)

NextHover == RenderHover \/ PointerEnter \/ PointerLeave \/ FocusIn \/ FocusOut

SpecHover == InitHover /\ [][NextHover]_vars

(* the styles and classNames of the elements of a pass *)
stylesOf(o) ==
    [i \in 1..Len(out[o].nodes) |->
        [style |-> out[o].nodes[i].style, className |-> out[o].nodes[i].className]]

(* C6: a pass that follows a pass of the same owner on the same element, with
   nothing in between, gives every element the style and the className the
   pass before gave it. *)
C6_ReproducibleResolution ==
    [][\A o \in Owners :
          (/\ last = [op |-> "render", o |-> o, k |-> ""] /\ last' = last
           /\ given'[o] = given[o]
           /\ ~out[o].threw /\ ~out'[o].threw)
          => stylesOf(o)' = stylesOf(o)]_vars

(* C9: in a pass, the hover handler returns the styles of the :hover rule
   exactly when the store holds hover = true for the owner and the key of the
   element: not before anything is stored, after onMouseEnter, and not after
   onMouseLeave. *)
C9_HoverRoundTrip ==
    \A o \in Owners :
        last = [op |-> "render", o |-> o, k |-> ""] =>
            \A i \in 1..Len(out[o].pseudo) :
                LET e == out[o].pseudo[i] IN
                e.name = "hover" =>
                    /\ e.ret # <<>> <=> storedTrue(o, e.key, "hover")
                    /\ e.ret # <<>> => e.ret = <<e.styles>>

(* C9 happens: in the last pass of o1 the element a is hovered and gets the
   styles of its :hover rule, the element b was left again and gets none, and
   o2 has nothing stored and gets none. *)
C9_Witness ==
    /\ last = [op |-> "render", o |-> "o1", k |-> ""]
    /\ storedTrue("o1", "a", "hover")
    /\ <<"o1", "b", "hover">> \in DOMAIN state /\ ~state[<<"o1", "b", "hover">>]
    /\ \E i \in 1..Len(out["o1"].pseudo) :
          LET e == out["o1"].pseudo[i] IN
          e.name = "hover" /\ e.key = "a" /\ e.ret = <<e.styles>>
    /\ \E i \in 1..Len(out["o1"].pseudo) :
          LET e == out["o1"].pseudo[i] IN
          e.name = "hover" /\ e.key = "b" /\ e.ret = <<>>
    /\ out["o2"].rendered /\ <<"o2", defaultKey, "hover">> \notin DOMAIN state
    /\ \A i \in 1..Len(out["o2"].pseudo) : out["o2"].pseudo[i].ret = <<>>

-----------------------------------------------------------------------------
(* Substring pseudo class (properties/pseudoClasses/substr.js)

   The handler is called as handler(property, styles, customKey, {newProps}).
   Here a JavaScript string is the sequence of its characters, and the value
   of newProps.children is [t, chars, items]: t is its typeof ("string",
   "number", "undefined", or "object" for an array), chars the characters of a
   string or the decimal digits of a number, items the entries of an array.
   An entry of the array the handler builds is [kind, text, style]: a string
   ("text"), a span element made by createElement ("span") or undefined.
   The property of a pseudo class rule is [name, expression]; the regular expressions
   considered are alternations lit1|lit2|... of non-empty literals, kept as the
   sequence of their alternatives. *)

StringValue(chars) == [t |-> "string", chars |-> chars, items |-> <<>>]
NumberValue(digits) == [t |-> "number", chars |-> digits, items |-> <<>>]
UndefinedValue == [t |-> "undefined", chars |-> <<>>, items |-> <<>>]
ArrayValue(items) == [t |-> "object", chars |-> <<>>, items |-> items]

TextItem(chars) == [kind |-> "text", text |-> chars, style |-> <<>>]
UndefinedItem == [kind |-> "undefined", text |-> <<>>, style |-> <<>>]

(* createElement('span', {style: styles}, match) *)
createElement(styles, text) == [kind |-> "span", text |-> text, style |-> <<styles>>]

(* getPseudoExpression(property): the expression between the brackets *)
getPseudoExpression(pseudo) == pseudo.expression

(* s.startsWith(lit, i), i counted from 1 *)
startsWithAt(s, lit, i) ==
    /\ i + Len(lit) - 1 <= Len(s)
    /\ \A j \in 1..Len(lit) : s[i + j - 1] = lit[j]

(* the alternative a regular expression takes at position i: the first one, in
   the order written, that matches there; 0 when none does *)
alternativeAt(s, regexp, i) ==
    IF \E a \in 1..Len(regexp) : startsWithAt(s, regexp[a], i)
    THEN CHOOSE a \in 1..Len(regexp) :
             /\ startsWithAt(s, regexp[a], i)
             /\ \A b \in 1..(a - 1) : ~startsWithAt(s, regexp[b], i)
    ELSE 0

(* s.match(new RegExp(expression, 'g')): every match from left to right, each
   search starting where the last match ended; <<>> stands for null *)
RECURSIVE matchFrom(_, _, _)
matchFrom(s, regexp, i) ==
    IF i > Len(s) THEN <<>>
    ELSE IF alternativeAt(s, regexp, i) = 0 THEN matchFrom(s, regexp, i + 1)
    ELSE <<regexp[alternativeAt(s, regexp, i)]>>
             \o matchFrom(s, regexp, i + Len(regexp[alternativeAt(s, regexp, i)]))
match(s, regexp) == matchFrom(s, regexp, 1)

(* s.indexOf(sep), counted from 1; 0 when sep does not occur *)
indexOf(s, sep) ==
    IF \E i \in 1..Len(s) : startsWithAt(s, sep, i)
    THEN CHOOSE i \in 1..Len(s) :
             /\ startsWithAt(s, sep, i)
             /\ \A j \in 1..(i - 1) : ~startsWithAt(s, sep, j)
    ELSE 0

(* s.split(sep) for a string separator: the pieces between the occurrences of
   sep; with the empty separator, the characters of s *)
RECURSIVE splitAt(_, _)
splitAt(s, sep) ==
    IF indexOf(s, sep) = 0 THEN <<s>>
    ELSE <<SubSeq(s, 1, indexOf(s, sep) - 1)>>
             \o splitAt(SubSeq(s, indexOf(s, sep) + Len(sep), Len(s)), sep)
split(s, sep) ==
    IF sep = <<>> THEN [i \in 1..Len(s) |-> <<s[i]>>] ELSE splitAt(s, sep)

(* pieces.join(sep) *)
RECURSIVE join(_, _)
join(pieces, sep) ==
    IF Len(pieces) = 0 THEN <<>>
    ELSE IF Len(pieces) = 1 THEN pieces[1]
    ELSE pieces[1] \o sep \o join(Tail(pieces), sep)

(* const [left, ...right] = children.split(match) *)
leftOf(pieces) == IF Len(pieces) = 0 THEN UndefinedItem ELSE TextItem(pieces[1])
rightOf(pieces) == IF Len(pieces) = 0 THEN <<>> ELSE Tail(pieces)

(* one round of matches.forEach: push left, push the span, keep the rest *)
pushMatch(newChildren, pieces, styles, m) ==
    [newChildren |-> newChildren \o <<leftOf(pieces), createElement(styles, m)>>,
     children |-> join(rightOf(pieces), m)]

RECURSIVE forEachMatch(_, _, _, _)
forEachMatch(matches, i, styles, acc) ==
    IF i > Len(matches) THEN acc
    ELSE forEachMatch(matches, i + 1, styles,
                      pushMatch(acc.newChildren, split(acc.children, matches[i]),
                                styles, matches[i]))

(* newChildren.push(children); newProps.children = newChildren *)
decorated(newProps, acc) ==
    [threw |-> FALSE,
     newProps |-> [newProps EXCEPT
                      !.children = ArrayValue(Append(acc.newChildren,
                                                     TextItem(acc.children)))]]

(* the handler once children.match(...) has returned *)
matched(newProps, matches, styles) ==
    IF matches = <<>>
    THEN [threw |-> FALSE, newProps |-> newProps]
    ELSE decorated(newProps,
                   forEachMatch(matches, 1, styles,
                                [newChildren |-> <<>>,
                                 children |-> newProps.children.chars]))

(* the handler: a number passes the typeof test and has no match method, so
   children.match(...) raises a TypeError; every return is false *)
substr(pseudo, styles, customKey, newProps) ==
    IF newProps.children.t \in {"string", "number"}
    THEN IF newProps.children.t = "number"
         THEN [threw |-> TRUE, newProps |-> newProps]
         ELSE matched(newProps,
                      match(newProps.children.chars, getPseudoExpression(pseudo)),
                      styles)
    ELSE [threw |-> FALSE, newProps |-> newProps]

-----------------------------------------------------------------------------
(* Substring decoration: one call of the handler on every content and
   pattern up to the bounds.  given holds the arguments of the call, element
   the same arguments after it, out whether it raised and what it returned. *)

MaxLen == 3

Letters == {"a", "b"}
Digits == {"1", "2"}

RECURSIVE StringsUpTo(_, _)
StringsUpTo(alphabet, n) ==
    IF n = 0 THEN {<<>>}
    ELSE StringsUpTo(alphabet, n - 1)
             \cup { Append(s, c) : s \in { t \in StringsUpTo(alphabet, n - 1) :
                                             Len(t) = n - 1 },
                                   c \in alphabet }

SubstrContents ==
    { StringValue(s) : s \in StringsUpTo(Letters, MaxLen) }
        \cup { NumberValue(d) : d \in StringsUpTo(Digits, MaxLen - 1) \ {<<>>} }
        \cup { UndefinedValue,
               ArrayValue(<<TextItem(<<"a">>), TextItem(<<"b">>)>>) }

SubstrExpressions ==
    { <<<<"a">>>>, <<<<"b">>>>, <<<<"a", "b">>>>, <<<<"a", "a">>>>,
      <<<<"b">>, <<"b", "a">>>>, <<<<"a", "b">>, <<"a">>>>,
      <<<<"1">>>>, <<<<"1", "2">>, <<"2">>>> }

SubstrStyles == <<Prim("color", "red")>>

SubstrCalls ==
    { [pseudo |-> [name |-> ":contains", expression |-> x],
       styles |-> SubstrStyles,
       newProps |-> [children |-> c]] : x \in SubstrExpressions, c \in SubstrContents }

InitSubstr ==
    InitWith({TRUE}, OnlyFirst({<<>>}), OnlyFirstSet({{}}), OnlyFirst(SubstrCalls),
             {"o1"})

Substituted(call, r) ==
    /\ element' = [element EXCEPT !["o1"] = [call EXCEPT !.newProps = r.newProps]]
    /\ out' = [out EXCEPT !["o1"] =
          [NoOut EXCEPT !.rendered = TRUE, !.threw = r.threw,
                        !.ret = IF r.threw THEN Undefined ELSE False]]

Substr ==
    /\ ~out["o1"].rendered
    /\ Substituted(given["o1"],
                   substr(given["o1"].pseudo, given["o1"].styles, "",
                          given["o1"].newProps))
    /\ last' = [op |-> "substr", o |-> "o1", k |-> ""]
    /\ UNCHANGED <<hasWindow, truths, additionalStyles, mounted, state,
                   lastActiveElements, onMouseUp, windowListeners, listeners, given>>

NextSubstr == Substr

SpecSubstr == InitSubstr /\ [][NextSubstr]_vars

(* the text of an entry, and of a sequence of entries put together *)
RECURSIVE textOf(_)
textOf(items) ==
    IF items = <<>> THEN <<>> ELSE Head(items).text \o textOf(Tail(items))

(* the content the pattern is matched against, the matches in it, and the
   entries the claim expects for them *)
interleaved(items, ms, styles) ==
    /\ Len(items) = 2 * Len(ms) + 1
    /\ \A j \in 1..Len(items) :
          IF j % 2 = 1
          THEN items[j].kind = "text"
          ELSE items[j] = [kind |-> "span", text |-> ms[j \div 2], style |-> <<styles>>]

decoratedAsClaimed(before, after, result, ms) ==
    /\ ~result.threw
    /\ result.ret = False
    /\ IF ms = <<>>
       THEN after.newProps = before.newProps
       ELSE /\ after.newProps.children.t = "object"
            /\ interleaved(after.newProps.children.items, ms, before.styles)
            /\ textOf(after.newProps.children.items) = before.newProps.children.chars

(* C11: after a call of the substring handler on outgoing children that are a
   single string or a single number, the handler has returned false; when the
   pattern has matches in the content, the outgoing children are a sequence
   that alternates plain text and one span per match, styled with the rule's
   styles, in match order, whose texts put together give the content; when it
   has none, the children are what they were. *)
C11_SubstringDecoration ==
    (out["o1"].rendered /\ given["o1"].newProps.children.t \in {"string", "number"})
        => decoratedAsClaimed(given["o1"], element["o1"], out["o1"],
                              match(given["o1"].newProps.children.chars,
                                    given["o1"].pseudo.expression))

====
